---- MODULE Spec2Model ----
(***************************************************************************)
(* Model of libtesla-rs (src/src/lib.rs): Rect geometry, Color blending,   *)
(* FrameBuffer drawing primitives and the TrackBar element.                *)
(*                                                                         *)
(* Each component has its own specification over the shared variables:     *)
(*   SpecRect          one Rect::intersect call on bounded rectangles      *)
(*   SpecBlendChannel  one Color::blend_channel call on 4-bit channels     *)
(*   SpecColor         one Color::blend_with call on a pair of colours     *)
(*   SpecFB            a frame: scissor pushes and pops, then one of       *)
(*                     FrameBuffer::clear / draw_rect / draw_box           *)
(*   SpecTrackBar      TrackBar::new, then on_controller_input calls       *)
(***************************************************************************)
EXTENDS Integers, Sequences, FiniteSets, TLC

VARIABLES
    \* Rect::intersect call: receiver, argument, result, position
    rect_a, rect_b, rect_r, rect_pc,
    \* Color::blend_channel call: arguments, result, position
    bc_left, bc_right, bc_alpha, bc_result, bc_pc,
    \* Color::blend_with call: receiver before and after, arguments, position
    c_old, c_self, c_other, c_blend_alpha, c_pc,
    \* build profile (debug_assertions on or off) and whether a bitfield
    \* setter was handed a value wider than its 4 bits
    debug_assertions, alpha_overflow,
    \* FrameBuffer: pixel storage, Renderer's scissor stack, last operation,
    \* the draw_rect calls and buffer accesses it made, position
    buffer, scisoring_config, op, draw_calls, accesses, fb_pc,
    \* TrackBar: value, callback presence, the callback's arguments so far,
    \* the values after construction and after each call, last call's held
    \* keys / previous value / return value, position, count
    value, value_changed_callback, cb_args, tb_history, tb_held, tb_prev,
    tb_ret, tb_pc, n_calls

rect_vars == <<rect_a, rect_b, rect_r, rect_pc>>
bc_vars == <<bc_left, bc_right, bc_alpha, bc_result, bc_pc>>
color_vars == <<c_old, c_self, c_other, c_blend_alpha, c_pc>>
build_vars == <<debug_assertions, alpha_overflow>>
fb_vars == <<buffer, scisoring_config, op, draw_calls, accesses, fb_pc>>
tb_vars == <<value, value_changed_callback, cb_args, tb_history, tb_held,
             tb_prev, tb_ret, tb_pc, n_calls>>
vars == <<rect_vars, bc_vars, color_vars, build_vars, fb_vars, tb_vars>>

Min(a, b) == IF a < b THEN a ELSE b
Max(a, b) == IF a > b THEN a ELSE b

(***************************************************************************)
(* Rect                                                                    *)
(***************************************************************************)

\* usize::MAX, scaled to the largest integer the model checker represents
UsizeMax == 2147483647

\* largest ordinary coordinate / extent of an input rectangle
MaxCoord == 2
\* largest coordinate of the grid of points probed by contains
MaxPoint == 4

saturating_add(a, b) == IF a > UsizeMax - b THEN UsizeMax ELSE a + b

\* Ord::clamp(self, min, max); panics when min > max
clamp(v, lo, hi) == IF v < lo THEN lo ELSE IF v > hi THEN hi ELSE v

MkRect(l, t, w, h) == [left |-> l, top |-> t, width |-> w, height |-> h]

EMTPY == MkRect(0, 0, 0, 0)

right(r) == saturating_add(r.left, r.width)
bottom(r) == saturating_add(r.top, r.height)

contains(r, x, y) ==
    /\ r.left <= x /\ x < right(r)
    /\ r.top <= y /\ y < bottom(r)

is_empty(r) == r.width = 0 \/ r.height = 0

\* intersect with the right edge clamped from below only
intersect_unclamped_right(self, other) ==
    LET l == clamp(self.left, other.left, right(other))
        t == clamp(self.top, other.top, bottom(other))
        w == Max(right(self), other.left) - l
        h == clamp(bottom(self), other.top, bottom(other)) - t
    IN MkRect(l, t, w, h)

intersect(self, other) ==
    LET l == clamp(self.left, other.left, right(other))
        t == clamp(self.top, other.top, bottom(other))
        w == clamp(right(self), other.left, right(other)) - l
        h == clamp(bottom(self), other.top, bottom(other)) - t
    IN MkRect(l, t, w, h)

MAX == MkRect(0, 0, UsizeMax, UsizeMax)

RectCoords == 0..MaxCoord
SmallRects == {MkRect(l, t, w, h) : l \in RectCoords, t \in RectCoords,
                                    w \in RectCoords, h \in RectCoords}
\* rectangles whose right / bottom saturate at usize::MAX
SaturatingRects == {MAX, MkRect(1, 1, UsizeMax, UsizeMax),
                    MkRect(UsizeMax, UsizeMax, 1, 1),
                    MkRect(UsizeMax - 1, 0, 2, 1),
                    MkRect(0, UsizeMax - 2, 1, UsizeMax)}
ScenarioA == MkRect(0, 0, 10, 10)
ScenarioB == MkRect(5, 5, 10, 10)
RectInputs == SmallRects \cup SaturatingRects \cup {ScenarioA, ScenarioB}

\* the points probed: a grid at the origin, the top of the usize range, and
\* the cells on either side of every edge of the two rectangles
EdgeCoords(lo, hi) == {lo, hi} \cup {c - 1 : c \in {lo, hi} \ {0}}
ProbeXs(a, b) ==
    (0..MaxPoint) \cup {UsizeMax - 1, UsizeMax}
        \cup EdgeCoords(a.left, right(a)) \cup EdgeCoords(b.left, right(b))
ProbeYs(a, b) ==
    (0..MaxPoint) \cup {UsizeMax - 1, UsizeMax}
        \cup EdgeCoords(a.top, bottom(a)) \cup EdgeCoords(b.top, bottom(b))

\* a.intersect(b) for one pair of input rectangles
RectCall ==
    /\ rect_pc = "start"
    /\ \E a \in RectInputs, b \in RectInputs :
          /\ rect_a' = a
          /\ rect_b' = b
          /\ rect_r' = intersect(a, b)
    /\ rect_pc' = "done"
    /\ UNCHANGED <<bc_vars, color_vars, build_vars, fb_vars, tb_vars>>

RectIdle ==
    /\ rect_a = EMTPY
    /\ rect_b = EMTPY
    /\ rect_r = EMTPY
    /\ rect_pc = "start"

(***************************************************************************)
(* helpers::PromotingMul and Color                                         *)
(***************************************************************************)

\* largest value of a #[bits(4)] channel
ChannelMax == 15
\* largest alpha argument handed to blend_channel (above ChannelMax: rejected)
MaxAlphaArg == 17

RECURSIVE BitOr(_, _)
BitOr(a, b) ==
    IF a = 0 THEN b
    ELSE IF b = 0 THEN a
    ELSE Max(a % 2, b % 2) + 2 * BitOr(a \div 2, b \div 2)

\* core::mem::size_of::<u16>()
SizeOfU16 == 2

\* u8::widening_mul: (low, high) halves of the 16-bit product
widening_mul(a, b) == [low |-> (a * b) % 256, high |-> (a * b) \div 256]

\* the shift amount is size_of::<u16>() / 8 = 0, so high is not moved
promoting_mul(a, b) ==
    LET p == widening_mul(a, b)
        shift == SizeOfU16 \div 8
    IN BitOr((p.high * (2 ^ shift)) % 65536, p.low)

\* assert!(alpha <= 0xF)
blend_channel_panics(alpha) == alpha > 15

blend_channel(left, right_, alpha) ==
    LET one_minus_alpha == 255 - alpha
        sum == (promoting_mul(right_, alpha)
                + promoting_mul(left, one_minus_alpha)) % 65536
    IN (sum \div 255) % 256

\* Color::blend_channel(l, r, a) for one triple of arguments
BlendChannelCall ==
    /\ bc_pc = "start"
    /\ \E l \in 0..ChannelMax, r \in 0..ChannelMax, a \in 0..MaxAlphaArg :
          /\ bc_left' = l
          /\ bc_right' = r
          /\ bc_alpha' = a
          /\ IF blend_channel_panics(a)
             THEN bc_result' = 0 /\ bc_pc' = "panic"
             ELSE bc_result' = blend_channel(l, r, a) /\ bc_pc' = "done"
    /\ UNCHANGED <<rect_vars, color_vars, build_vars, fb_vars, tb_vars>>

BcIdle ==
    /\ bc_left = 0
    /\ bc_right = 0
    /\ bc_alpha = 0
    /\ bc_result = 0
    /\ bc_pc = "start"

from_values(r, g, b, a) == [r |-> r, g |-> g, b |-> b, a |-> a]

BACKGROUND == from_values(0, 0, 0, 13)
TRANSPARENT == from_values(0, 0, 0, 0)
HIGHLIGHT == from_values(0, 15, 13, 15)
FRAME == from_values(7, 7, 7, 15)
HANDLE == from_values(5, 5, 5, 15)
TEXT == from_values(15, 15, 15, 15)
DESCRIPTION == from_values(10, 10, 10, 15)
HEADER_BAR == from_values(12, 12, 12, 15)
CLICK_ANIMATION == from_values(0, 2, 2, 15)

Palette == {BACKGROUND, TRANSPARENT, HIGHLIGHT, FRAME, HANDLE, TEXT,
            DESCRIPTION, HEADER_BAR, CLICK_ANIMATION}

\* A generated 4-bit setter (set_r, set_g, set_b, set_a) applied to the
\* running state st = [color, panicked, overflow] of a blend_with call.
\* A value above 0xF trips the setter's bounds assertion when
\* debug_assertions is on; without it the value is masked to 4 bits.
set_channel(st, field, v, debug) ==
    IF st.panicked THEN st
    ELSE IF v > 15
    THEN IF debug
         THEN [st EXCEPT !.panicked = TRUE, !.overflow = TRUE]
         ELSE [st EXCEPT !.color = [st.color EXCEPT ![field] = v % 16],
                         !.overflow = TRUE]
    ELSE [st EXCEPT !.color = [st.color EXCEPT ![field] = v]]

\* Color::blend_with; the result carries the colour left in *self, whether
\* the call panicked, and whether a setter received more than 4 bits.
blend_with(self, other, blend_alpha, debug) ==
    LET s0 == [color |-> self, panicked |-> FALSE, overflow |-> FALSE]
        s1 == set_channel(s0, "r",
                  blend_channel(s0.color.a, other.r, s0.color.a), debug)
        s2 == set_channel(s1, "g",
                  blend_channel(s1.color.g, other.g, s1.color.a), debug)
        s3 == set_channel(s2, "b",
                  blend_channel(s2.color.b, other.b, s2.color.a), debug)
    IN set_channel(s3, "a",
           IF blend_alpha THEN s3.color.a + other.a ELSE s3.color.a, debug)

\* channel values an input colour of a blend_with call is built from
ChannelSamples == {0, 1, 7, 13, ChannelMax}
ScenarioSelf == from_values(15, 0, 0, 15)
ScenarioOther == from_values(0, 15, 0, 0)
SelfColors == {from_values(r, g, b, a) : r \in ChannelSamples,
                  g \in ChannelSamples, b \in ChannelSamples,
                  a \in ChannelSamples}
OtherColors == Palette \cup {ScenarioOther}

\* self.blend_with(other, blend_alpha) for one choice of colours
BlendWithCall ==
    /\ c_pc = "start"
    /\ \E self \in SelfColors \cup {ScenarioSelf}, other \in OtherColors,
          blend_alpha \in BOOLEAN :
          LET res == blend_with(self, other, blend_alpha, debug_assertions)
          IN /\ c_old' = self
             /\ c_other' = other
             /\ c_blend_alpha' = blend_alpha
             /\ c_self' = res.color
             /\ c_pc' = IF res.panicked THEN "panic" ELSE "done"
             /\ alpha_overflow' = res.overflow
    /\ UNCHANGED <<rect_vars, bc_vars, debug_assertions, fb_vars, tb_vars>>

ColorIdle ==
    /\ c_old = TRANSPARENT
    /\ c_self = TRANSPARENT
    /\ c_other = TRANSPARENT
    /\ c_blend_alpha = FALSE
    /\ c_pc = "start"

(***************************************************************************)
(* FrameBuffer                                                             *)
(***************************************************************************)

\* FrameBuffer.width, FrameBuffer.height and stride_item_count() of the
\* surface the Renderer was created with (stride >= width)
FbWidth == 2
FbHeight == 3
FbStride == 3
\* largest line_offsets value reached by the line widths handed to draw_box
MaxLineOffset == 2
\* depth of the scissor stack
MaxScissorDepth == 1

BufLen == FbStride * FbHeight

stride_item_count == FbStride

\* usize arithmetic: an overflowing +, - or * panics when debug_assertions
\* is on and wraps modulo UsizeMax + 1 otherwise
add_overflows(a, b) == a > UsizeMax - b
wrapping_add(a, b) == IF add_overflows(a, b) THEN a - (UsizeMax - b) - 1
                      ELSE a + b
sub_overflows(a, b) == a < b
wrapping_sub(a, b) == IF a < b THEN UsizeMax - (b - a - 1) ELSE a - b
mul_overflows(a, n) == n > 0 /\ a > UsizeMax \div n
RECURSIVE wrapping_mul(_, _)
wrapping_mul(a, n) == IF n = 0 THEN 0
                      ELSE wrapping_add(wrapping_mul(a, n - 1), a)

\* One iteration of draw_rect's inner loop on the running state
\* st = [buf, panicked, overflow, accesses, calls]:
\*   self.buffer[y_pixel * stride + x_pixel].blend_with(color, true)
draw_pixel(st, x, y, color, debug) ==
    LET ovf == \/ mul_overflows(y, stride_item_count)
               \/ add_overflows(wrapping_mul(y, stride_item_count), x)
        idx == wrapping_add(wrapping_mul(y, stride_item_count), x)
        acc == [x |-> x, y |-> y, idx |-> idx]
    IN IF ovf /\ debug
       THEN [st EXCEPT !.panicked = TRUE]
       ELSE IF idx >= BufLen
       THEN [st EXCEPT !.panicked = TRUE,
                       !.accesses = st.accesses \cup {acc}]
       ELSE LET res == blend_with(st.buf[idx], color, TRUE, debug)
            IN [st EXCEPT !.buf = [st.buf EXCEPT ![idx] = res.color],
                          !.panicked = res.panicked,
                          !.overflow = st.overflow \/ res.overflow,
                          !.accesses = st.accesses \cup {acc}]

\* for x_pixel in rect.left..rect.right() { for y_pixel in rect.top..rect.bottom()
RECURSIVE draw_loop(_, _, _, _, _, _)
draw_loop(st, rect, color, x, y, debug) ==
    IF st.panicked \/ x >= right(rect) THEN st
    ELSE IF y >= bottom(rect)
    THEN draw_loop(st, rect, color, x + 1, rect.top, debug)
    ELSE draw_loop(draw_pixel(st, x, y, color, debug), rect, color, x, y + 1,
                   debug)

\* FrameBuffer::draw_rect. The value of rect.intersect(scisoring_area) is
\* dropped: intersect takes &self and returns a new Rect, so rect is the
\* caller's rectangle on both paths.
draw_rect(st, rect, color, scissor, debug) ==
    LET discarded == IF scissor # <<>>
                     THEN intersect(rect, scissor[Len(scissor)])
                     ELSE rect
        rect1 == rect
        st1 == [st EXCEPT !.calls = Append(st.calls,
                                           [rect |-> rect, color |-> color])]
    IN IF st.panicked THEN st
       ELSE IF is_empty(rect1) THEN st1
       ELSE draw_loop(st1, rect1, color, rect1.left, rect1.top, debug)

\* Rect literal of one edge band of draw_box; ovf tells whether one of its
\* usize expressions overflowed
band(l, t, w, h) ==
    [rect |-> MkRect(wrapping_sub(l.a, l.b), wrapping_sub(t.a, t.b),
                     wrapping_add(w.a, w.b), wrapping_add(h.a, h.b)),
     ovf |-> \/ sub_overflows(l.a, l.b) \/ sub_overflows(t.a, t.b)
             \/ add_overflows(w.a, w.b) \/ add_overflows(h.a, h.b)]

\* one self.draw_rect(Rect {..}, color) statement of draw_box
box_step(st, b, color, scissor, debug) ==
    IF st.panicked THEN st
    ELSE IF b.ovf /\ debug THEN [st EXCEPT !.panicked = TRUE]
    ELSE draw_rect(st, b.rect, color, scissor, debug)

line_offsets_of(line_width) == Max(1, line_width \div 2)

pair(a, b) == [a |-> a, b |-> b]

top_band(rect, o) ==
    band(pair(rect.left, o), pair(rect.top, o),
         pair(rect.width, 2 * o), pair(2 * o, 0))
bottom_band(rect, o) ==
    band(pair(rect.left, o), pair(bottom(rect), o),
         pair(rect.width, 2 * o), pair(2 * o, 0))
left_band(rect, o) ==
    band(pair(rect.left, o), pair(rect.top, o),
         pair(2 * o, 0), pair(rect.height, 2 * o))
right_band(rect, o) ==
    band(pair(right(rect), o), pair(rect.top, o),
         pair(2 * o, 0), pair(rect.height, 2 * o))

\* draw_box issuing the right band before the left band
draw_box_right_first(st, rect, line_width, color, scissor, debug) ==
    LET o == line_offsets_of(line_width)
        s1 == box_step(st, top_band(rect, o), color, scissor, debug)
        s2 == box_step(s1, bottom_band(rect, o), color, scissor, debug)
        s3 == box_step(s2, right_band(rect, o), color, scissor, debug)
    IN box_step(s3, left_band(rect, o), color, scissor, debug)

\* FrameBuffer::draw_box
draw_box(st, rect, line_width, color, scissor, debug) ==
    LET o == line_offsets_of(line_width)
        s1 == box_step(st, top_band(rect, o), color, scissor, debug)
        s2 == box_step(s1, bottom_band(rect, o), color, scissor, debug)
        s3 == box_step(s2, left_band(rect, o), color, scissor, debug)
    IN box_step(s3, right_band(rect, o), color, scissor, debug)

\* FrameBuffer::clear
clear(st, scissor, debug) ==
    draw_rect(st, MkRect(0, 0, FbWidth, FbHeight), BACKGROUND, scissor, debug)

\* rectangles handed to a draw call: inside the frame, reaching into the
\* row padding, and reaching past the last row
FbCoords == 0..FbStride
FbRects == {MkRect(l, t, w, h) : l \in FbCoords, t \in FbCoords,
                                 w \in FbCoords, h \in FbCoords}
ScissorRects == {MkRect(0, 0, 1, 1), MkRect(0, 1, 1, 1)}
\* rectangles handed to draw_box: those, and one whose band width overflows
BoxRects == FbRects \cup {MkRect(1, 1, UsizeMax, 0)}
DrawColors == {TRANSPARENT, BACKGROUND}
InitFills == {TRANSPARENT, BACKGROUND}
LineWidths == {0, 2 * MaxLineOffset}

FbStart ==
    [buf |-> buffer, panicked |-> FALSE, overflow |-> FALSE,
     accesses |-> {}, calls |-> <<>>]

\* the state a drawing operation leaves behind
FbFinish(res, name, rect, line_width, color) ==
    /\ buffer' = res.buf
    /\ fb_pc' = IF res.panicked THEN "panic" ELSE "drawn"
    /\ alpha_overflow' = (alpha_overflow \/ res.overflow)
    /\ accesses' = res.accesses
    /\ draw_calls' = res.calls
    /\ op' = [name |-> name, rect |-> rect, line_width |-> line_width,
              color |-> color, clip |-> scisoring_config,
              before |-> buffer]
    /\ UNCHANGED <<scisoring_config, debug_assertions>>
    /\ UNCHANGED <<rect_vars, bc_vars, color_vars, tb_vars>>

FbReady == fb_pc = "ready"

Clear ==
    /\ FbReady
    /\ FbFinish(clear(FbStart, scisoring_config, debug_assertions),
                "clear", MkRect(0, 0, FbWidth, FbHeight), 0, BACKGROUND)

DrawRect ==
    /\ FbReady
    /\ \E rect \in FbRects, color \in DrawColors :
          FbFinish(draw_rect(FbStart, rect, color, scisoring_config,
                             debug_assertions),
                   "draw_rect", rect, 0, color)

DrawBox ==
    /\ FbReady
    /\ \E rect \in BoxRects, line_width \in LineWidths, color \in DrawColors :
          FbFinish(draw_box(FbStart, rect, line_width, color,
                            scisoring_config, debug_assertions),
                   "draw_box", rect, line_width, color)

\* The scissor stack is pushed and popped around nested drawing scopes.
PushScissor ==
    /\ fb_pc = "ready"
    /\ Len(scisoring_config) < MaxScissorDepth
    /\ \E rect \in ScissorRects :
          scisoring_config' = Append(scisoring_config, rect)
    /\ UNCHANGED <<buffer, op, draw_calls, accesses, fb_pc, build_vars>>
    /\ UNCHANGED <<rect_vars, bc_vars, color_vars, tb_vars>>

PopScissor ==
    /\ fb_pc = "ready"
    /\ scisoring_config # <<>>
    /\ scisoring_config' = SubSeq(scisoring_config, 1,
                                  Len(scisoring_config) - 1)
    /\ UNCHANGED <<buffer, op, draw_calls, accesses, fb_pc, build_vars>>
    /\ UNCHANGED <<rect_vars, bc_vars, color_vars, tb_vars>>

NoOp == [name |-> "none", rect |-> EMTPY, line_width |-> 0,
         color |-> TRANSPARENT, clip |-> <<>>, before |-> <<>>]

FbIdle ==
    /\ buffer = [i \in 0..(BufLen - 1) |-> TRANSPARENT]
    /\ scisoring_config = <<>>
    /\ op = NoOp
    /\ draw_calls = <<>>
    /\ accesses = {}
    /\ fb_pc = "ready"

(***************************************************************************)
(* elm::TrackBar                                                           *)
(***************************************************************************)

\* u8::MAX
U8Max == 255
\* on_controller_input calls per run
MaxCalls == 2

\* NpadButton bits: a held_keys mask is the set of buttons whose bit is set
ANY_LEFT == {"Left", "StickLLeft", "StickRLeft"}
ANY_RIGHT == {"Right", "StickLRight", "StickRRight"}
Buttons == ANY_LEFT \cup ANY_RIGHT \cup {"A"}

\* TrackBar::new: value.unwrap_or(0)
\* (an Option<u8> is <<>> for None and <<v>> for Some(v))
new_value(value_opt) == IF value_opt = <<>> THEN 0 ELSE value_opt[1]

\* on_controller_input without the (true, false) arm's value < 100 guard
on_controller_input_no_upper_guard(v, callback, new_keys, held_keys) ==
    LET l == (held_keys \cap ANY_LEFT) # {}
        r == (held_keys \cap ANY_RIGHT) # {}
    IN IF l = r THEN [value |-> v, ret |-> TRUE, calls |-> <<>>]
       ELSE IF l /\ ~r
       THEN [value |-> (v + 1) % (U8Max + 1), ret |-> TRUE,
             calls |-> IF callback THEN <<(v + 1) % (U8Max + 1)>> ELSE <<>>]
       ELSE IF ~l /\ r /\ v > 0
       THEN [value |-> v - 1, ret |-> TRUE,
             calls |-> IF callback THEN <<v - 1>> ELSE <<>>]
       ELSE [value |-> v, ret |-> FALSE, calls |-> <<>>]

\* on_controller_input handing the callback the value before the change
on_controller_input_stale_arg(v, callback, new_keys, held_keys) ==
    LET l == (held_keys \cap ANY_LEFT) # {}
        r == (held_keys \cap ANY_RIGHT) # {}
    IN IF l = r THEN [value |-> v, ret |-> TRUE, calls |-> <<>>]
       ELSE IF l /\ ~r /\ v < 100
       THEN [value |-> v + 1, ret |-> TRUE,
             calls |-> IF callback THEN <<v>> ELSE <<>>]
       ELSE IF ~l /\ r /\ v > 0
       THEN [value |-> v - 1, ret |-> TRUE,
             calls |-> IF callback THEN <<v>> ELSE <<>>]
       ELSE [value |-> v, ret |-> FALSE, calls |-> <<>>]

\* TrackBar::on_controller_input: the new value, the return value and the
\* arguments of the callback invocations it made
on_controller_input(v, callback, new_keys, held_keys) ==
    LET l == (held_keys \cap ANY_LEFT) # {}
        r == (held_keys \cap ANY_RIGHT) # {}
    IN IF l = r THEN [value |-> v, ret |-> TRUE, calls |-> <<>>]
       ELSE IF l /\ ~r /\ v < 100
       THEN [value |-> v + 1, ret |-> TRUE,
             calls |-> IF callback THEN <<v + 1>> ELSE <<>>]
       ELSE IF ~l /\ r /\ v > 0
       THEN [value |-> v - 1, ret |-> TRUE,
             calls |-> IF callback THEN <<v - 1>> ELSE <<>>]
       ELSE [value |-> v, ret |-> FALSE, calls |-> <<>>]

\* initial values handed to TrackBar::new
ValueSamples == {0, 1, 49, 50, 99, 100, 101, 200, U8Max}
ValueArgs == {<<>>} \cup {<<v>> : v \in ValueSamples}

TrackBarNew ==
    /\ tb_pc = "start"
    /\ \E value_opt \in ValueArgs, callback \in BOOLEAN :
          /\ value' = new_value(value_opt)
          /\ value_changed_callback' = callback
          /\ tb_history' = <<new_value(value_opt)>>
    /\ tb_pc' = "constructed"
    /\ UNCHANGED <<cb_args, tb_held, tb_prev, tb_ret, n_calls>>
    /\ UNCHANGED <<rect_vars, bc_vars, color_vars, build_vars, fb_vars>>

OnControllerInput ==
    /\ tb_pc \in {"constructed", "called"}
    /\ n_calls < MaxCalls
    /\ \E new_keys \in {{}, {"A"}}, held_keys \in SUBSET Buttons :
          LET res == on_controller_input(value, value_changed_callback,
                                         new_keys, held_keys)
          IN /\ value' = res.value
             /\ tb_ret' = res.ret
             /\ cb_args' = cb_args \o res.calls
             /\ tb_history' = Append(tb_history, res.value)
             /\ tb_held' = held_keys
    /\ tb_prev' = value
    /\ tb_pc' = "called"
    /\ n_calls' = n_calls + 1
    /\ UNCHANGED value_changed_callback
    /\ UNCHANGED <<rect_vars, bc_vars, color_vars, build_vars, fb_vars>>

TbIdle ==
    /\ value = 0
    /\ value_changed_callback = FALSE
    /\ cb_args = <<>>
    /\ tb_history = <<>>
    /\ tb_held = {}
    /\ tb_prev = 0
    /\ tb_ret = FALSE
    /\ tb_pc = "start"
    /\ n_calls = 0

(***************************************************************************)
(* Specifications                                                          *)
(***************************************************************************)

BuildIdle == debug_assertions = FALSE /\ alpha_overflow = FALSE

InitRect == RectIdle /\ BcIdle /\ ColorIdle /\ BuildIdle /\ FbIdle /\ TbIdle
NextRect == RectCall
SpecRect == InitRect /\ [][NextRect]_vars

InitBlendChannel == InitRect
NextBlendChannel == BlendChannelCall
SpecBlendChannel == InitBlendChannel /\ [][NextBlendChannel]_vars

InitColor ==
    /\ RectIdle /\ BcIdle /\ ColorIdle /\ FbIdle /\ TbIdle
    /\ debug_assertions \in BOOLEAN
    /\ alpha_overflow = FALSE
NextColor == BlendWithCall
SpecColor == InitColor /\ [][NextColor]_vars

InitFB ==
    /\ RectIdle /\ BcIdle /\ ColorIdle /\ TbIdle
    /\ debug_assertions \in BOOLEAN
    /\ alpha_overflow = FALSE
    /\ \E fill \in InitFills : buffer = [i \in 0..(BufLen - 1) |-> fill]
    /\ scisoring_config = <<>>
    /\ op = NoOp
    /\ draw_calls = <<>>
    /\ accesses = {}
    /\ fb_pc = "ready"
NextFB ==
    \/ Clear
    \/ DrawRect
    \/ DrawBox
    \/ PushScissor
    \/ PopScissor
SpecFB == InitFB /\ [][NextFB]_vars

InitTrackBar == InitRect
NextTrackBar ==
    \/ TrackBarNew
    \/ OnControllerInput
SpecTrackBar == InitTrackBar /\ [][NextTrackBar]_vars

(***************************************************************************)
(* Properties                                                              *)
(***************************************************************************)

\* C1: the result of a.intersect(b) is contained in both a and b, it is
\* empty exactly when a and b share no point, and the 10x10 rectangles at
\* (0,0) and (5,5) intersect in the 5x5 rectangle at (5,5).
C1_IntersectContainedEmptyIffDisjoint ==
    rect_pc = "done" =>
        /\ \A x \in ProbeXs(rect_a, rect_b), y \in ProbeYs(rect_a, rect_b) :
              contains(rect_r, x, y) =>
                  contains(rect_a, x, y) /\ contains(rect_b, x, y)
        /\ is_empty(rect_r) <=>
              ~\E x \in ProbeXs(rect_a, rect_b),
                  y \in ProbeYs(rect_a, rect_b) :
                  contains(rect_a, x, y) /\ contains(rect_b, x, y)
        /\ (rect_a = ScenarioA /\ rect_b = ScenarioB) =>
              rect_r = MkRect(5, 5, 5, 5)

C1_Witness ==
    /\ rect_pc = "done"
    /\ rect_a = ScenarioA
    /\ rect_b = ScenarioB
    /\ rect_r = MkRect(5, 5, 5, 5)
    /\ contains(rect_r, 5, 5)

\* C2: blend_channel(left, right, alpha) returns
\* floor((right*alpha + left*(255-alpha)) / 255) with full-width products,
\* and the result fits in 4 bits.
C2_BlendChannelIsExactLerp ==
    bc_pc = "done" =>
        /\ bc_result =
              (bc_right * bc_alpha + bc_left * (255 - bc_alpha)) \div 255
        /\ bc_result \in 0..ChannelMax

\* C3: blend_with sets each of r, g, b to blend_channel(old self channel,
\* other's channel, old self alpha), and with blend_alpha = false leaves
\* alpha unchanged.
C3_BlendWithUsesOwnChannel ==
    c_pc = "done" =>
        /\ c_self.r = blend_channel(c_old.r, c_other.r, c_old.a)
        /\ c_self.g = blend_channel(c_old.g, c_other.g, c_old.a)
        /\ c_self.b = blend_channel(c_old.b, c_other.b, c_old.a)
        /\ ~c_blend_alpha => c_self.a = c_old.a

Pixels == {p \in [x : 0..(FbWidth - 1), y : 0..(FbHeight - 1)] : TRUE}
PixelIndex(p) == p.y * FbStride + p.x
Writes == {acc \in accesses : acc.idx < BufLen}

\* C4: with a non-empty scissor stack, draw_rect changes only pixels inside
\* the intersection of rect with the top-of-stack scissor Rect, and writes
\* no pixel at all when that intersection is empty.
C4_DrawRectClippedToScissor ==
    (op.name = "draw_rect" /\ op.clip # <<>>) =>
        LET clip == intersect(op.rect, op.clip[Len(op.clip)])
        IN /\ \A p \in Pixels :
                 ~contains(clip, p.x, p.y) =>
                     buffer[PixelIndex(p)] = op.before[PixelIndex(p)]
           /\ is_empty(clip) => Writes = {}

\* C8: after draw_rect calls every pixel's four channels are in [0,15] and
\* no write hands the 4-bit alpha field a value that overflows it.
C8_ChannelsStayFourBit ==
    op.name \in {"none", "draw_rect"} =>
        /\ \A i \in 0..(BufLen - 1) :
              /\ buffer[i].r \in 0..ChannelMax
              /\ buffer[i].g \in 0..ChannelMax
              /\ buffer[i].b \in 0..ChannelMax
              /\ buffer[i].a \in 0..ChannelMax
        /\ ~alpha_overflow

BoxPrecondition ==
    /\ op.name = "draw_box"
    /\ op.rect.left >= Max(1, op.line_width \div 2)
    /\ op.rect.top >= Max(1, op.line_width \div 2)

\* C9 as claimed: for left >= o and top >= o, o = max(1, line_width/2),
\* draw_box issues exactly four draw_rect calls (top, bottom, left, right)
\* with the given colour, each edge band being o thick.
C9_BoxBandsOneOffsetThick ==
    BoxPrecondition =>
        LET o == Max(1, op.line_width \div 2)
        IN /\ Len(draw_calls) = 4
           /\ \A i \in 1..4 : draw_calls[i].color = op.color
           /\ draw_calls[1].rect.height = o
           /\ draw_calls[2].rect.height = o
           /\ draw_calls[3].rect.width = o
           /\ draw_calls[4].rect.width = o

\* the four calls of draw_box with bands 2*o thick, centred on the edges
BoxCalls(rect, o, color) ==
    << [rect |-> MkRect(rect.left - o, rect.top - o,
                        rect.width + 2 * o, 2 * o), color |-> color],
       [rect |-> MkRect(rect.left - o, rect.top + rect.height - o,
                        rect.width + 2 * o, 2 * o), color |-> color],
       [rect |-> MkRect(rect.left - o, rect.top - o,
                        2 * o, rect.height + 2 * o), color |-> color],
       [rect |-> MkRect(rect.left + rect.width - o, rect.top - o,
                        2 * o, rect.height + 2 * o), color |-> color] >>

\* C9 as amended: for left >= o and top >= o (and width + 2*o, height + 2*o
\* within usize), draw_box issues draw_rect calls in the order top, bottom,
\* left, right with the given colour, each band 2*o thick and starting o
\* outside rect's edge; all four are issued unless one of them panics,
\* which ends the sequence there.
C9_BoxBandsTwoOffsetsThick ==
    (/\ BoxPrecondition
     /\ op.rect.width <= UsizeMax - 2 * Max(1, op.line_width \div 2)
     /\ op.rect.height <= UsizeMax - 2 * Max(1, op.line_width \div 2)) =>
        LET o == Max(1, op.line_width \div 2)
            want == BoxCalls(op.rect, o, op.color)
        IN /\ Len(draw_calls) \in 1..4
           /\ draw_calls = SubSeq(want, 1, Len(draw_calls))
           /\ fb_pc = "drawn" => Len(draw_calls) = 4
           /\ Len(draw_calls) < 4 => fb_pc = "panic"

C9_Witness ==
    /\ BoxPrecondition
    /\ fb_pc = "drawn"
    /\ Len(draw_calls) = 4
    /\ draw_calls[1].rect.height = 2 * Max(1, op.line_width \div 2)
    /\ draw_calls[4].rect.width = 2 * Max(1, op.line_width \div 2)
    /\ op.rect.width > 0 /\ op.rect.height > 0
    /\ Cardinality({draw_calls[i].rect : i \in 1..4}) = 4
    /\ Writes # {}

\* C10: with an empty scissor stack draw_rect touches only cells
\* y*stride + x with x < width and y < height: never past the end of the
\* buffer, never the row padding, never another row.
C10_DrawRectStaysInFrame ==
    (op.name = "draw_rect" /\ op.clip = <<>>) =>
        \A acc \in accesses :
            /\ acc.idx < BufLen
            /\ acc.x < FbWidth
            /\ acc.y < FbHeight
            /\ acc.idx = acc.y * FbStride + acc.x

HeldLeft == (tb_held \cap ANY_LEFT) # {}
HeldRight == (tb_held \cap ANY_RIGHT) # {}

\* C5: on_controller_input with only left held and value < 100 adds 1 and
\* returns true; with only right held and value > 0 subtracts 1 and returns
\* true; with both or neither held leaves the value and returns true; with
\* only left held at 100, or only right held at 0, leaves the value and
\* returns false.
C5_ControllerInputOutcome ==
    tb_pc = "called" =>
        /\ (HeldLeft /\ ~HeldRight /\ tb_prev < 100) =>
              (value = tb_prev + 1 /\ tb_ret)
        /\ (~HeldLeft /\ HeldRight /\ tb_prev > 0) =>
              (value = tb_prev - 1 /\ tb_ret)
        /\ (HeldLeft = HeldRight) => (value = tb_prev /\ tb_ret)
        /\ (HeldLeft /\ ~HeldRight /\ tb_prev = 100) =>
              (value = tb_prev /\ ~tb_ret)
        /\ (~HeldLeft /\ HeldRight /\ tb_prev = 0) =>
              (value = tb_prev /\ ~tb_ret)

C5_Witness ==
    /\ tb_pc = "called"
    /\ HeldLeft /\ ~HeldRight
    /\ tb_prev = 100
    /\ value = 100
    /\ ~tb_ret

\* C6: once a TrackBar is constructed its value is always in [0,100].
C6_ValueInRange == tb_pc # "start" => value \in 0..100

\* the entries of a value history that differ from their predecessor
RECURSIVE Changes(_)
Changes(h) ==
    IF Len(h) < 2 THEN <<>>
    ELSE LET rest == Changes(SubSeq(h, 1, Len(h) - 1))
         IN IF h[Len(h)] # h[Len(h) - 1] THEN Append(rest, h[Len(h)])
            ELSE rest

\* C7: with a callback installed, the callback is invoked exactly once by
\* each call that changes the value, with the new value, and never by a
\* call that leaves it unchanged: its arguments are the successive changed
\* values.
C7_CallbackPerChange ==
    (tb_pc # "start" /\ value_changed_callback) =>
        cb_args = Changes(tb_history)

C7_Witness ==
    /\ tb_pc = "called"
    /\ value_changed_callback
    /\ n_calls = 2
    /\ tb_prev = 50
    /\ value = 49
    /\ tb_history = <<50, 50, 49>>
    /\ cb_args = <<49>>

====
